---- MODULE Spec2Model ----
(***************************************************************************)
(* Link-prediction benchmark harness (link_prediction_scores.py).          *)
(*                                                                         *)
(* calculate_all_scores seeds the process-wide generator, masks a part of  *)
(* the edges (mask_test_edges), then runs six predictors one after the     *)
(* other; each predictor turns a score matrix (or classifier output) into  *)
(* ROC-AUC / average precision through get_roc_score.                      *)
(*                                                                         *)
(* Numbers: a real value is a pair <<num, den>> with den > 0; <<0, 0>> is  *)
(* NaN (the float result of 0/0).                                          *)
(***************************************************************************)
EXTENDS Integers, Sequences, FiniteSets, TLC

VARIABLES pc, adj_sparse, test_frac, val_frac, rng, seed_calls,
          train_test_split, score_matrix, train_in, val_roc_score,
          lp_scores, err, run, prev, roc, matrix_of, epochs, feed_dict

vars == <<pc, adj_sparse, test_frac, val_frac, rng, seed_calls,
          train_test_split, score_matrix, train_in, val_roc_score,
          lp_scores, err, run, prev, roc, matrix_of, epochs, feed_dict>>

----------------------------------------------------------------------------
(* Bounds of the model                                                     *)

MaxEdges == 6
MaxAttempts == 30
MaxRuns == 2
MaxPairEdges == 4
MaxLen == 2

(* Fractions are tenths: test_frac = 3 stands for 0.3 (the default),       *)
(* val_frac = 1 for 0.1 (the default).                                     *)
FracDen == 10
FracNums == {0, 3, 4, 6}

Nodes == 0 .. 4
NumNodes == Cardinality(Nodes)

(* An undirected edge, each unordered pair once (upper triangle).          *)
Canon(u, v) == IF u < v THEN <<u, v>> ELSE <<v, u>>
AllPairs == {p \in Nodes \X Nodes : p[1] < p[2]}
Graphs == {g \in SUBSET AllPairs : Cardinality(g) <= MaxEdges}

Range(s) == {s[i] : i \in DOMAIN s}
NoDup(s) == \A i, j \in DOMAIN s : s[i] = s[j] => i = j

----------------------------------------------------------------------------
(* The process-wide pseudorandom generator (np.random): a state and a      *)
(* deterministic step. np.random.seed(s) fixes the state.                  *)

SeedState(s) == s + 1
NextRng(s) == (3 * s) % 31

----------------------------------------------------------------------------
(* mask_test_edges (gae.preprocessing): the edge split engine.             *)

(* 1. the positive edges of the upper triangle, row-major *)
UpperEdges(adj) ==
  LET all == [k \in 1 .. (NumNodes * NumNodes) |->
                <<(k - 1) \div NumNodes, (k - 1) % NumNodes>>]
  IN  SelectSeq(all, LAMBDA p : p \in adj)

SwapAt(s, i, j) == [s EXCEPT ![i] = s[j], ![j] = s[i]]

(* 2. shuffle driven by the generator (Fisher-Yates) *)
RECURSIVE ShuffleFrom(_, _, _)
ShuffleFrom(s, i, r) ==
  IF i <= 1 THEN [seq |-> s, rng |-> r]
  ELSE ShuffleFrom(SwapAt(s, i, 1 + (r % i)), i - 1, NextRng(r))

Shuffle(s, r) == ShuffleFrom(s, Len(s), r)

(* 3. the held-out counts *)
NumTest(tf, E) == (tf * E) \div FracDen
NumVal(vf, E) == (vf * E) \div FracDen

(* 5. negative sampling by rejection: a drawn pair is rejected when it is  *)
(* a self-pair, an edge of the ORIGINAL adjacency, or already chosen for   *)
(* any negative set. A negative set that is not full after MaxAttempts     *)
(* draws is given up.                                                      *)
DrawPair(r) == <<r % NumNodes, (r \div NumNodes) % NumNodes>>

Rejected(p, adj, taken) ==
  \/ p[1] = p[2]
  \/ Canon(p[1], p[2]) \in adj
  \/ Canon(p[1], p[2]) \in taken

RECURSIVE SampleNeg(_, _, _, _, _, _)
SampleNeg(need, chosen, taken, adj, r, attempts) ==
  IF need = 0 THEN [ok |-> TRUE, seq |-> chosen, rng |-> r]
  ELSE IF attempts = 0 THEN [ok |-> FALSE, seq |-> chosen, rng |-> r]
  ELSE LET p == DrawPair(r)
       IN  IF Rejected(p, adj, taken)
           THEN SampleNeg(need, chosen, taken, adj, NextRng(r), attempts - 1)
           ELSE SampleNeg(need - 1, Append(chosen, Canon(p[1], p[2])),
                          taken \cup {Canon(p[1], p[2])}, adj, NextRng(r),
                          attempts - 1)

NoSplit == [ok |-> FALSE, error |-> "none"]

(* split(adjacency, test_fraction, val_fraction) with the generator state  *)
(* r: the seven-tuple of the split, or the error it raises.                *)
mask_test_edges(adj, tf, vf, r) ==
  LET E        == Cardinality(adj)
      num_test == NumTest(tf, E)
      num_val  == NumVal(vf, E)
      sh       == Shuffle(UpperEdges(adj), r)
      test     == SubSeq(sh.seq, 1, num_test)
      val      == SubSeq(sh.seq, num_test + 1, num_test + num_val)
      train    == SubSeq(sh.seq, num_test + num_val + 1, E)
      tneg     == SampleNeg(num_test, <<>>, {}, adj, sh.rng, MaxAttempts)
      vneg     == SampleNeg(num_val, <<>>, Range(tneg.seq), adj, tneg.rng,
                            MaxAttempts)
      trneg    == SampleNeg(E - num_test - num_val, <<>>,
                            Range(tneg.seq) \cup Range(vneg.seq), adj,
                            vneg.rng, MaxAttempts)
  IN  IF E - num_test - num_val <= 0
      THEN [ok |-> FALSE, error |-> "InvalidSplitConfiguration", rng |-> r]
      ELSE IF ~(tneg.ok /\ vneg.ok /\ trneg.ok)
      THEN [ok |-> FALSE, error |-> "NegativeSamplingExhausted",
            rng |-> trneg.rng]
      ELSE [ok |-> TRUE, error |-> "none", rng |-> trneg.rng,
            adj_train |-> Range(train),
            train_edges |-> train, train_edges_false |-> trneg.seq,
            val_edges |-> val, val_edges_false |-> vneg.seq,
            test_edges |-> test, test_edges_false |-> tneg.seq]

----------------------------------------------------------------------------
(* Real values as pairs <<num, den>>, den > 0; NaN is <<0, 0>>.            *)

NaN == <<0, 0>>
IsNaN(a) == a[2] = 0
Q(n) == <<n, 1>>

RECURSIVE Gcd(_, _)
Gcd(a, b) == IF b = 0 THEN a ELSE Gcd(b, a % b)

Abs(n) == IF n < 0 THEN -n ELSE n

NormQ(a) ==
  IF a[2] = 0 THEN NaN
  ELSE IF a[1] = 0 THEN <<0, 1>>
  ELSE LET g == Gcd(Abs(a[1]), a[2]) IN <<a[1] \div g, a[2] \div g>>

Less(a, b) ==
  IF a[2] = b[2] THEN a[1] < b[1] ELSE a[1] * b[2] < b[1] * a[2]

AddQ(a, b) == NormQ(<<a[1] * b[2] + b[1] * a[2], a[2] * b[2]>>)

(* a / m as numpy divides: 0 / 0 is NaN (a warning, no exception) *)
DivQ(a, m) ==
  IF IsNaN(a) \/ IsNaN(m) \/ (m[1] = 0 /\ a[1] = 0) THEN NaN
  ELSE NormQ(<<a[1] * m[2], a[2] * m[1]>>)

----------------------------------------------------------------------------
(* sigmoid: 1 / (1 + np.exp(-x)) in double precision, for an integer       *)
(* score x. The value is given in units of 10^-9, truncated; from x = 37   *)
(* on exp(-x) is below half an ulp of 1 and the result is exactly 1.0.     *)

SigmoidNano(x) ==
  CASE x >= 37 -> 1000000000
    [] x = 36  -> 999999999
    [] x = 4   -> 982013790
    [] x = 3   -> 952574126
    [] x = 2   -> 880797077
    [] x = 1   -> 731058578
    [] x = 0   -> 500000000
    [] x = -1  -> 268941421
    [] x = -2  -> 119202922
    [] x = -3  -> 47425873
    [] x = -4  -> 17986209

sigmoid(x) == IF IsNaN(x) THEN NaN ELSE <<SigmoidNano(x[1]), 1000000000>>

----------------------------------------------------------------------------
(* sklearn.metrics, as get_roc_score uses it.                              *)

Count(S) == Cardinality(S)

PosIdx(labels) == {i \in DOMAIN labels : labels[i] = 1}
NegIdx(labels) == {i \in DOMAIN labels : labels[i] = 0}

(* rank-based AUC: a positive above a negative counts 1, a tie 1/2 *)
AucValue(labels, preds) ==
  LET P  == PosIdx(labels)
      N  == NegIdx(labels)
      gt == Count({pr \in P \X N : Less(preds[pr[2]], preds[pr[1]])})
      eq == Count({pr \in P \X N : ~Less(preds[pr[2]], preds[pr[1]])
                                   /\ ~Less(preds[pr[1]], preds[pr[2]])})
  IN  NormQ(<<2 * gt + eq, 2 * Count(P) * Count(N)>>)

(* average precision: sum over the thresholds (the distinct scores) of     *)
(* (recall step) * precision at that threshold                             *)
ApTerm(v, labels, preds) ==
  LET P    == PosIdx(labels)
      tp   == Count({i \in P : ~Less(preds[i], v)})
      tpup == Count({i \in P : Less(v, preds[i])})
      all  == Count({i \in DOMAIN labels : ~Less(preds[i], v)})
  IN  <<(tp - tpup) * tp, Count(P) * all>>

RECURSIVE ApSum(_, _, _)
ApSum(vals, labels, preds) ==
  IF vals = {} THEN <<0, 1>>
  ELSE LET v == CHOOSE y \in vals : TRUE
       IN  AddQ(ApTerm(v, labels, preds), ApSum(vals \ {v}, labels, preds))

ApValue(labels, preds) == ApSum(Range(preds), labels, preds)

HasNaN(preds) == \E i \in DOMAIN preds : IsNaN(preds[i])

(* roc_auc_score then average_precision_score on the same vectors. Fewer   *)
(* than two classes in labels: roc_auc_score raises ValueError. A NaN      *)
(* score: the library either rejects the input (ValueError) or computes on *)
(* it, depending on its version (nan_raises); what it then returns is      *)
(* undefined, NaN here.                                                    *)
Metrics(labels, preds, nan_raises) ==
  IF PosIdx(labels) = {} \/ NegIdx(labels) = {}
  THEN [ok |-> FALSE, error |-> "ValueError"]
  ELSE IF HasNaN(preds)
  THEN IF nan_raises THEN [ok |-> FALSE, error |-> "ValueError"]
       ELSE [ok |-> TRUE, error |-> "none", roc |-> NaN, ap |-> NaN]
  ELSE [ok |-> TRUE, error |-> "none",
        roc |-> AucValue(labels, preds), ap |-> ApValue(labels, preds)]

----------------------------------------------------------------------------
(* get_roc_score                                                           *)

(* the matrix read at the transposed coordinate *)
PredTransposed(edge, matrix, apply_sigmoid) ==
  IF apply_sigmoid THEN sigmoid(matrix[edge[2], edge[1]])
  ELSE matrix[edge[2], edge[1]]

Pred(edge, matrix, apply_sigmoid) ==
  IF apply_sigmoid THEN sigmoid(matrix[edge[1], edge[2]])
  ELSE matrix[edge[1], edge[2]]

Preds(edges, matrix, apply_sigmoid) ==
  [i \in 1 .. Len(edges) |-> Pred(edges[i], matrix, apply_sigmoid)]

PredsAll(edges_pos, edges_neg, matrix, apply_sigmoid) ==
  Preds(edges_pos, matrix, apply_sigmoid) \o Preds(edges_neg, matrix, apply_sigmoid)

(* the two label blocks exchanged *)
LabelsExchanged(edges_pos, edges_neg) ==
  [i \in 1 .. Len(edges_pos) |-> 0] \o [i \in 1 .. Len(edges_neg) |-> 1]

LabelsAll(edges_pos, edges_neg) ==
  [i \in 1 .. Len(edges_pos) |-> 1] \o [i \in 1 .. Len(edges_neg) |-> 0]

get_roc_score(edges_pos, edges_neg, matrix, apply_sigmoid, nan_raises) ==
  Metrics(LabelsAll(edges_pos, edges_neg),
          PredsAll(edges_pos, edges_neg, matrix, apply_sigmoid), nan_raises)

----------------------------------------------------------------------------
(* The heuristic indices of networkx, over the non-adjacent pairs of the   *)
(* training graph.                                                         *)

Neighbors(g, u) == {v \in Nodes \ {u} : Canon(u, v) \in g}
Degree(g, u) == Cardinality(Neighbors(g, u))
CommonNeighbors(g, u, v) == Neighbors(g, u) \cap Neighbors(g, v)

(* 1000 / ln(d), rounded: the Adamic-Adar weight of a common neighbour of  *)
(* degree d (a common neighbour has degree >= 2)                           *)
InvLogMilli(d) ==
  CASE d = 2 -> 1443
    [] d = 3 -> 910
    [] d = 4 -> 721
    [] d = 5 -> 621
    [] OTHER -> 558

RECURSIVE SumInvLog(_, _)
SumInvLog(g, S) ==
  IF S = {} THEN 0
  ELSE LET w == CHOOSE y \in S : TRUE
       IN  InvLogMilli(Degree(g, w)) + SumInvLog(g, S \ {w})

adamic_adar_index(g, u, v) ==
  NormQ(<<SumInvLog(g, CommonNeighbors(g, u, v)), 1000>>)

jaccard_coefficient(g, u, v) ==
  LET union == Neighbors(g, u) \cup Neighbors(g, v)
  IN  IF union = {} THEN <<0, 1>>
      ELSE NormQ(<<Cardinality(CommonNeighbors(g, u, v)), Cardinality(union)>>)

preferential_attachment(g, u, v) == Q(Degree(g, u) * Degree(g, v))

ZeroMatrix == [p \in Nodes \X Nodes |-> <<0, 1>>]

(* np.zeros(shape), then [u][v] = [v][u] = p for every pair the index      *)
(* generator yields (the non-adjacent pairs)                               *)
IndexOf(key, g, u, v) ==
  CASE key = "aa" -> adamic_adar_index(g, u, v)
    [] key = "jc" -> jaccard_coefficient(g, u, v)
    [] key = "pa" -> preferential_attachment(g, u, v)

IndexMatrix(g, key) ==
  [p \in Nodes \X Nodes |->
     IF p[1] # p[2] /\ Canon(p[1], p[2]) \notin g
     THEN IndexOf(key, g, p[1], p[2]) ELSE <<0, 1>>]

MatrixMax(m) ==
  LET vals == {m[p] : p \in DOMAIN m}
  IN  CHOOSE x \in vals : \A y \in vals : ~Less(x, y)

(* the normalisation left out *)
NotNormalized(m) == m

(* matrix / matrix.max() *)
Normalize(m) == LET max == MatrixMax(m) IN [p \in DOMAIN m |-> DivQ(m[p], max)]

HeuristicScores(g_train, split, key, nan_raises) ==
  LET matrix == Normalize(IndexMatrix(g_train, key))
      res    == get_roc_score(split.test_edges, split.test_edges_false,
                              matrix, FALSE, nan_raises)
  IN  IF res.ok
      THEN [ok |-> TRUE, error |-> "none", matrix |-> matrix,
            scores |-> [test_roc |-> res.roc, test_ap |-> res.ap]]
      ELSE [ok |-> FALSE, error |-> res.error, matrix |-> matrix]

adamic_adar_scores(g_train, split, nan_raises) ==
  HeuristicScores(g_train, split, "aa", nan_raises)

jaccard_coefficient_scores(g_train, split, nan_raises) ==
  HeuristicScores(g_train, split, "jc", nan_raises)

preferential_attachment_scores(g_train, split, nan_raises) ==
  HeuristicScores(g_train, split, "pa", nan_raises)

----------------------------------------------------------------------------
(* The embedding-based predictors. What the embedding library returns is   *)
(* not determined here: it is any member of Embeddings, one coordinate per *)
(* node.                                                                   *)

Embeddings ==
  { [n \in Nodes |-> IF n % 2 = 0 THEN 1 ELSE -1],
    [n \in Nodes |-> (n % 3) - 1] }

(* np.dot(emb, emb.T) *)
DotMatrix(emb) == [p \in Nodes \X Nodes |-> Q(emb[p[1]] * emb[p[2]])]

spectral_clustering_scores(split, spectral_emb, nan_raises) ==
  LET sc_score_matrix == DotMatrix(spectral_emb)
      test == get_roc_score(split.test_edges, split.test_edges_false,
                            sc_score_matrix, TRUE, nan_raises)
      val  == get_roc_score(split.val_edges, split.val_edges_false,
                            sc_score_matrix, TRUE, nan_raises)
  IN  IF ~test.ok
      THEN [ok |-> FALSE, error |-> test.error, matrix |-> sc_score_matrix]
      ELSE IF ~val.ok
      THEN [ok |-> FALSE, error |-> val.error, matrix |-> sc_score_matrix]
      ELSE [ok |-> TRUE, error |-> "none", matrix |-> sc_score_matrix,
            scores |-> [test_roc |-> test.roc, test_ap |-> test.ap,
                        val_roc |-> val.roc, val_ap |-> val.ap]]

(* node2vec: the edge classifier's probability for an edge is the logistic *)
(* function of the product of its endpoint embeddings; validation is       *)
(* scored before test.                                                     *)
node2vec_scores(g_train, split, emb_matrix, nan_raises) ==
  LET probs == DotMatrix(emb_matrix)
      val  == Metrics(LabelsAll(split.val_edges, split.val_edges_false),
                      PredsAll(split.val_edges, split.val_edges_false,
                               probs, TRUE), nan_raises)
      test == Metrics(LabelsAll(split.test_edges, split.test_edges_false),
                      PredsAll(split.test_edges, split.test_edges_false,
                               probs, TRUE), nan_raises)
  IN  IF ~val.ok
      THEN [ok |-> FALSE, error |-> val.error, matrix |-> probs]
      ELSE IF ~test.ok
      THEN [ok |-> FALSE, error |-> test.error, matrix |-> probs]
      ELSE [ok |-> TRUE, error |-> "none", matrix |-> probs,
            scores |-> [test_roc |-> test.roc, test_ap |-> test.ap,
                        val_roc |-> val.roc, val_ap |-> val.ap]]

(* gae_scores: what it feeds the model and the optimizer *)
AdjSum(adj) == 2 * Cardinality(adj)

pos_weight(adj) ==
  NormQ(<<NumNodes * NumNodes - AdjSum(adj), AdjSum(adj)>>)

norm(adj) ==
  NormQ(<<NumNodes * NumNodes, (NumNodes * NumNodes - AdjSum(adj)) * 2>>)

GaeTrainingInput(adj, split) ==
  [adj_norm |-> split.adj_train, adj_label |-> split.adj_train,
   pos_weight |-> pos_weight(adj), norm |-> norm(adj)]

EPOCHS == 2

(* the record without the per-epoch trajectory *)
gae_final_scores_no_list(split, gae_score_matrix, trajectory, nan_raises) ==
  LET val  == get_roc_score(split.val_edges, split.val_edges_false,
                            gae_score_matrix, FALSE, nan_raises)
      test == get_roc_score(split.test_edges, split.test_edges_false,
                            gae_score_matrix, FALSE, nan_raises)
  IN  IF ~val.ok THEN [ok |-> FALSE, error |-> val.error]
      ELSE IF ~test.ok THEN [ok |-> FALSE, error |-> test.error]
      ELSE [ok |-> TRUE, error |-> "none",
            scores |-> [test_roc |-> test.roc, test_ap |-> test.ap,
                        val_roc |-> val.roc, val_ap |-> val.ap]]

gae_final_scores(split, gae_score_matrix, trajectory, nan_raises) ==
  LET val  == get_roc_score(split.val_edges, split.val_edges_false,
                            gae_score_matrix, FALSE, nan_raises)
      test == get_roc_score(split.test_edges, split.test_edges_false,
                            gae_score_matrix, FALSE, nan_raises)
  IN  IF ~val.ok THEN [ok |-> FALSE, error |-> val.error]
      ELSE IF ~test.ok THEN [ok |-> FALSE, error |-> test.error]
      ELSE [ok |-> TRUE, error |-> "none",
            scores |-> [test_roc |-> test.roc, test_ap |-> test.ap,
                        val_roc |-> val.roc, val_ap |-> val.ap,
                        val_roc_list |-> trajectory]]

----------------------------------------------------------------------------
(* calculate_all_scores, one step per statement group                      *)

NoCall == [called |-> FALSE]
NoPrev == [run |-> 0]

Init ==
  /\ pc = "start"
  /\ adj_sparse \in Graphs
  /\ test_frac \in FracNums
  /\ val_frac \in FracNums
  /\ rng \in {1, 2}
  /\ seed_calls = 0
  /\ train_test_split = NoSplit
  /\ score_matrix = ZeroMatrix
  /\ train_in = <<>>
  /\ val_roc_score = <<>>
  /\ lp_scores = <<>>
  /\ err = "none"
  /\ run = 1
  /\ prev = NoPrev
  /\ roc = NoCall
  /\ matrix_of = "none"
  /\ epochs = EPOCHS
  /\ feed_dict = "unbound"

(* the generator left as it is *)
SeedNotFixed ==
  /\ pc = "start"
  /\ rng' = rng
  /\ seed_calls' = seed_calls + 1
  /\ pc' = "split"
  /\ UNCHANGED <<epochs, feed_dict,
                 adj_sparse, test_frac, val_frac, train_test_split,
                 score_matrix, train_in, val_roc_score, lp_scores, err, run,
                 prev, roc, matrix_of>>

(* np.random.seed(0) *)
Seed ==
  /\ pc = "start"
  /\ rng' = SeedState(0)
  /\ seed_calls' = seed_calls + 1
  /\ pc' = "split"
  /\ UNCHANGED <<epochs, feed_dict,
                 adj_sparse, test_frac, val_frac, train_test_split,
                 score_matrix, train_in, val_roc_score, lp_scores, err, run,
                 prev, roc, matrix_of>>

(* the seven-tuple bound to the wrong names *)
UnpackValTestSwapped(r) ==
  [ok |-> TRUE, adj_train |-> r.adj_train,
   train_edges |-> r.train_edges, train_edges_false |-> r.train_edges_false,
   val_edges |-> r.test_edges, val_edges_false |-> r.test_edges_false,
   test_edges |-> r.val_edges, test_edges_false |-> r.val_edges_false]

UnpackShifted(r) ==
  [ok |-> TRUE, adj_train |-> r.adj_train,
   train_edges |-> r.train_edges, train_edges_false |-> r.val_edges,
   val_edges |-> r.train_edges_false, val_edges_false |-> r.val_edges_false,
   test_edges |-> r.test_edges, test_edges_false |-> r.test_edges_false]

Unpack(r) ==
  [ok |-> TRUE, adj_train |-> r.adj_train,
   train_edges |-> r.train_edges, train_edges_false |-> r.train_edges_false,
   val_edges |-> r.val_edges, val_edges_false |-> r.val_edges_false,
   test_edges |-> r.test_edges, test_edges_false |-> r.test_edges_false]

EmptySplit ==
  [ok |-> TRUE, adj_train |-> {}, train_edges |-> <<>>,
   train_edges_false |-> <<>>, val_edges |-> <<>>, val_edges_false |-> <<>>,
   test_edges |-> <<>>, test_edges_false |-> <<>>]

(* the split's exception swallowed: the predictors run on an empty split *)
SplitSwallowsError ==
  /\ pc = "split"
  /\ LET r == mask_test_edges(adj_sparse, test_frac, val_frac, rng)
     IN  /\ rng' = r.rng
         /\ train_test_split' = IF r.ok THEN Unpack(r) ELSE EmptySplit
         /\ pc' = "aa"
         /\ err' = err
  /\ UNCHANGED <<epochs, feed_dict,
                 adj_sparse, test_frac, val_frac, seed_calls, score_matrix,
                 train_in, val_roc_score, lp_scores, run, prev, roc,
                 matrix_of>>

(* train_test_split = mask_test_edges(...); an exception it raises ends    *)
(* the call                                                                *)
Split ==
  /\ pc = "split"
  /\ LET r == mask_test_edges(adj_sparse, test_frac, val_frac, rng)
     IN  /\ rng' = r.rng
         /\ IF r.ok
            THEN /\ train_test_split' = Unpack(r)
                 /\ pc' = "aa"
                 /\ err' = err
            ELSE /\ train_test_split' = train_test_split
                 /\ pc' = "raised"
                 /\ err' = r.error
  /\ UNCHANGED <<epochs, feed_dict,
                 adj_sparse, test_frac, val_frac, seed_calls, score_matrix,
                 train_in, val_roc_score, lp_scores, run, prev, roc,
                 matrix_of>>

g_train == train_test_split.adj_train

(* one predictor call and lp_scores[key] = its result *)
Record(key, res, next) ==
  /\ score_matrix' = res.matrix
  /\ matrix_of' = key
  /\ train_in' = (key :> [graph |-> g_train]) @@ train_in
  /\ IF res.ok
     THEN /\ lp_scores' = (key :> res.scores) @@ lp_scores
          /\ pc' = next
          /\ err' = err
     ELSE /\ lp_scores' = lp_scores
          /\ pc' = "raised"
          /\ err' = res.error
  /\ UNCHANGED <<epochs, feed_dict,
                 adj_sparse, test_frac, val_frac, rng, seed_calls,
                 train_test_split, val_roc_score, run, prev, roc>>

AdamicAdar ==
  /\ pc = "aa"
  /\ \E nan_raises \in BOOLEAN :
       Record("aa", adamic_adar_scores(g_train, train_test_split, nan_raises),
              "jc")

Jaccard ==
  /\ pc = "jc"
  /\ \E nan_raises \in BOOLEAN :
       Record("jc", jaccard_coefficient_scores(g_train, train_test_split,
                                               nan_raises), "pa")

PrefAttach ==
  /\ pc = "pa"
  /\ \E nan_raises \in BOOLEAN :
       Record("pa", preferential_attachment_scores(g_train, train_test_split,
                                                   nan_raises), "sc")

Spectral ==
  /\ pc = "sc"
  /\ \E emb \in Embeddings :
       Record("sc", spectral_clustering_scores(train_test_split, emb, TRUE),
              "n2v")

(* node2vec draws its walks from the process-wide generator *)
Node2Vec ==
  /\ pc = "n2v"
  /\ \E emb \in Embeddings :
       /\ score_matrix' = DotMatrix(emb)
       /\ matrix_of' = "n2v"
       /\ train_in' = ("n2v" :> [graph |-> g_train]) @@ train_in
       /\ rng' = NextRng(rng)
       /\ LET res == node2vec_scores(g_train, train_test_split, emb, TRUE)
          IN  IF res.ok
              THEN /\ lp_scores' = ("n2v" :> res.scores) @@ lp_scores
                   /\ pc' = "gae"
                   /\ err' = err
              ELSE /\ lp_scores' = lp_scores
                   /\ pc' = "raised"
                   /\ err' = res.error
  /\ UNCHANGED <<epochs, feed_dict,
                 adj_sparse, test_frac, val_frac, seed_calls,
                 train_test_split, val_roc_score, run, prev, roc>>

(* gae_scores up to the training loop *)
GaeSetup ==
  /\ pc = "gae"
  /\ train_in' = ("gae" :> GaeTrainingInput(adj_sparse, train_test_split))
                   @@ train_in
  /\ val_roc_score' = <<>>
  /\ feed_dict' = "unbound"
  /\ pc' = "gae_epoch"
  /\ UNCHANGED <<epochs, adj_sparse, test_frac, val_frac, rng, seed_calls,
                 train_test_split, score_matrix, lp_scores, err, run, prev,
                 roc, matrix_of>>

(* one pass of `for epoch in range(EPOCHS)`: the feed dictionary is built, *)
(* one weight update runs, then the validation ROC of the embedding is     *)
(* appended; the epoch index is the number of values appended so far       *)
GaeEpoch ==
  /\ pc = "gae_epoch"
  /\ Len(val_roc_score) < epochs
  /\ feed_dict' = "bound"
  /\ \E gae_emb \in Embeddings :
       LET gae_score_matrix == DotMatrix(gae_emb)
           res == get_roc_score(train_test_split.val_edges,
                                train_test_split.val_edges_false,
                                gae_score_matrix, FALSE, TRUE)
       IN  /\ score_matrix' = gae_score_matrix
           /\ matrix_of' = "gae"
           /\ IF res.ok
              THEN /\ val_roc_score' = Append(val_roc_score, res.roc)
                   /\ pc' = pc
                   /\ err' = err
              ELSE /\ val_roc_score' = val_roc_score
                   /\ pc' = "raised"
                   /\ err' = res.error
  /\ UNCHANGED <<epochs, adj_sparse, test_frac, val_frac, rng, seed_calls,
                 train_test_split, train_in, lp_scores, run, prev, roc>>

(* after the loop: feed_dict.update reads the local the loop body binds,   *)
(* which is unbound when the loop body never ran; otherwise the final      *)
(* embedding is that of the trained weights, the one the last epoch        *)
(* evaluated; then lp_scores['gae'] and the return                         *)
GaeFinish ==
  /\ pc = "gae_epoch"
  /\ Len(val_roc_score) = epochs
  /\ IF feed_dict = "unbound"
     THEN /\ lp_scores' = lp_scores
          /\ pc' = "raised"
          /\ err' = "UnboundLocalError"
     ELSE LET res == gae_final_scores(train_test_split, score_matrix,
                                      val_roc_score, TRUE)
          IN  IF res.ok
              THEN /\ lp_scores' = ("gae" :> res.scores) @@ lp_scores
                   /\ pc' = "done"
                   /\ err' = err
              ELSE /\ lp_scores' = lp_scores
                   /\ pc' = "raised"
                   /\ err' = res.error
  /\ UNCHANGED <<epochs, feed_dict,
                 adj_sparse, test_frac, val_frac, rng, seed_calls,
                 train_test_split, score_matrix, train_in, val_roc_score,
                 run, prev, roc, matrix_of>>

Next ==
  \/ Seed
  \/ Split
  \/ AdamicAdar
  \/ Jaccard
  \/ PrefAttach
  \/ Spectral
  \/ Node2Vec
  \/ GaeSetup
  \/ GaeEpoch
  \/ GaeFinish

Spec == Init /\ [][Next]_vars

----------------------------------------------------------------------------
(* Repeated calls in one process: the caller calls calculate_all_scores    *)
(* again once a call has returned or raised. The generator's state is      *)
(* process-wide and survives the call; everything else is local to it.     *)

NoGaeInput == [adj_norm |-> {}, adj_label |-> {}, pos_weight |-> NaN,
               norm |-> NaN]

(* what the caller keeps of a finished call: its arguments, the split it   *)
(* made (or the split's error) and what it fed the autoencoder             *)
CallWith(adj, tf, vf) ==
  /\ pc \in {"done", "raised"}
  /\ run < MaxRuns
  /\ prev' = [run |-> run, adj_sparse |-> adj_sparse, test_frac |-> test_frac,
              val_frac |-> val_frac, train_test_split |-> train_test_split,
              split_err |-> IF train_test_split.ok THEN "none" ELSE err,
              gae_in |-> IF "gae" \in DOMAIN train_in THEN train_in["gae"]
                         ELSE NoGaeInput]
  /\ run' = run + 1
  /\ adj_sparse' = adj
  /\ test_frac' = tf
  /\ val_frac' = vf
  /\ pc' = "start"
  /\ seed_calls' = 0
  /\ train_test_split' = NoSplit
  /\ score_matrix' = ZeroMatrix
  /\ train_in' = <<>>
  /\ val_roc_score' = <<>>
  /\ lp_scores' = <<>>
  /\ err' = "none"
  /\ matrix_of' = "none"
  /\ feed_dict' = "unbound"
  /\ UNCHANGED <<epochs, rng, roc>>

(* the same arguments again *)
CallAgain == CallWith(adj_sparse, test_frac, val_frac)

HeldOut == Range(train_test_split.val_edges) \cup Range(train_test_split.test_edges)

(* after a completed call: the graph without one of the edges that call    *)
(* held out, with any test fraction                                        *)
CallOnSmallerGraph ==
  /\ pc = "done"
  /\ \E e \in HeldOut, tf \in FracNums :
       CallWith(adj_sparse \ {e}, tf, val_frac)

(* the first call of a sequence of calls: a graph of at most MaxPairEdges   *)
(* edges, the generator in a state other than the seeded one               *)
InitPair ==
  /\ Init
  /\ Cardinality(adj_sparse) <= MaxPairEdges
  /\ rng = 2

SpecRerun == InitPair /\ [][Next \/ CallAgain]_vars

SpecPair == InitPair /\ [][Next \/ CallOnSmallerGraph]_vars

----------------------------------------------------------------------------
(* get_roc_score on its own: any two edge lists of at most MaxLen edges    *)
(* over two nodes, any score matrix with entries of ScoreVals off the      *)
(* diagonal.                                                               *)

RocNodes == {0, 1}
ScoreVals == {-1, 1, 37, 40}
RocMatrices ==
  {[p \in RocNodes \X RocNodes |->
      IF p = <<0, 1>> THEN Q(a) ELSE IF p = <<1, 0>> THEN Q(b) ELSE Q(0)] :
     a \in ScoreVals, b \in ScoreVals}
EdgeLists == UNION {[1 .. k -> RocNodes \X RocNodes] : k \in 0 .. MaxLen}

InitRoc ==
  /\ pc = "roc"
  /\ adj_sparse = {}
  /\ test_frac = 0
  /\ val_frac = 0
  /\ rng = 1
  /\ seed_calls = 0
  /\ train_test_split = NoSplit
  /\ score_matrix = ZeroMatrix
  /\ train_in = <<>>
  /\ val_roc_score = <<>>
  /\ lp_scores = <<>>
  /\ err = "none"
  /\ run = 1
  /\ prev = NoPrev
  /\ matrix_of = "none"
  /\ epochs = EPOCHS
  /\ feed_dict = "unbound"
  /\ \E ep \in EdgeLists, en \in EdgeLists, m \in RocMatrices, sg \in BOOLEAN :
       roc = [called |-> FALSE, edges_pos |-> ep, edges_neg |-> en,
              score_matrix |-> m, apply_sigmoid |-> sg]

CallGetRocScore ==
  /\ pc = "roc"
  /\ ~roc.called
  /\ \E nan_raises \in BOOLEAN :
       roc' = [roc EXCEPT !.called = TRUE] @@
              [preds_all |-> PredsAll(roc.edges_pos, roc.edges_neg,
                                      roc.score_matrix, roc.apply_sigmoid),
               labels_all |-> LabelsAll(roc.edges_pos, roc.edges_neg),
               result |-> get_roc_score(roc.edges_pos, roc.edges_neg,
                                        roc.score_matrix, roc.apply_sigmoid,
                                        nan_raises)]
  /\ UNCHANGED <<epochs, feed_dict,
                 pc, adj_sparse, test_frac, val_frac, rng, seed_calls,
                 train_test_split, score_matrix, train_in, val_roc_score,
                 lp_scores, err, run, prev, matrix_of>>

SpecRoc == InitRoc /\ [][CallGetRocScore]_vars

----------------------------------------------------------------------------
(* gae_scores on its own: a caller passes a graph, a split of it and any   *)
(* epoch count EPOCHS of 0 .. MaxEpochs.                                   *)

MaxEpochs == 3

InitGae ==
  /\ pc = "gae"
  /\ adj_sparse \in Graphs
  /\ Cardinality(adj_sparse) <= MaxPairEdges
  /\ test_frac \in FracNums
  /\ val_frac \in FracNums
  /\ seed_calls = 1
  /\ LET r == mask_test_edges(adj_sparse, test_frac, val_frac, SeedState(0))
     IN  /\ r.ok
         /\ rng = r.rng
         /\ train_test_split = Unpack(r)
  /\ score_matrix = ZeroMatrix
  /\ train_in = <<>>
  /\ val_roc_score = <<>>
  /\ lp_scores = <<>>
  /\ err = "none"
  /\ run = 1
  /\ prev = NoPrev
  /\ roc = NoCall
  /\ matrix_of = "none"
  /\ epochs \in 0 .. MaxEpochs
  /\ feed_dict = "unbound"

SpecGae == InitGae /\ [][GaeSetup \/ GaeEpoch \/ GaeFinish]_vars

----------------------------------------------------------------------------
(* Properties of the split                                                 *)

Split3 == train_test_split
NumEdges == Cardinality(adj_sparse)
CanonSeq(s) == [i \in DOMAIN s |-> Canon(s[i][1], s[i][2])]

(* C1: the train, val and test positive edge sets of a split are pairwise  *)
(* disjoint, hold no unordered pair twice, together are exactly the edges  *)
(* of the original graph, and |test| = floor(test_frac * E), |val| =       *)
(* floor(val_frac * E); with E >= 1 and test_frac + val_frac < 1 the split *)
(* is never refused as an invalid configuration.                           *)
C1_SplitPartitionsEdges ==
  /\ Split3.ok =>
       LET pos == Split3.train_edges \o Split3.val_edges \o Split3.test_edges
       IN  /\ NoDup(CanonSeq(pos))
           /\ Range(CanonSeq(pos)) = adj_sparse
           /\ Len(pos) = NumEdges
           /\ Len(Split3.test_edges) = (test_frac * NumEdges) \div FracDen
           /\ Len(Split3.val_edges) = (val_frac * NumEdges) \div FracDen
           /\ Split3.adj_train = Range(CanonSeq(Split3.train_edges))
  /\ (NumEdges >= 1 /\ test_frac + val_frac < FracDen)
       => err # "InvalidSplitConfiguration"

C1_Witness ==
  /\ Split3.ok
  /\ test_frac # val_frac
  /\ Len(Split3.test_edges) >= 1
  /\ Len(Split3.val_edges) >= 2
  /\ Len(Split3.train_edges) >= 2

(* C2: every pair of train_neg, val_neg and test_neg is a non-self pair    *)
(* that is no edge of the original graph, and no unordered pair appears in *)
(* more than one of the three negative sets (nor twice in one).            *)
C2_NegativesAreOriginalNonEdges ==
  Split3.ok =>
    LET neg == Split3.train_edges_false \o Split3.val_edges_false
                 \o Split3.test_edges_false
    IN  /\ \A i \in DOMAIN neg :
             /\ neg[i][1] # neg[i][2]
             /\ Canon(neg[i][1], neg[i][2]) \notin adj_sparse
        /\ NoDup(CanonSeq(neg))

C2_Witness ==
  /\ Split3.ok
  /\ Len(Split3.train_edges_false) >= 2
  /\ Len(Split3.val_edges_false) >= 1
  /\ Len(Split3.test_edges_false) >= 1
  /\ Cardinality(Split3.adj_train) < NumEdges

----------------------------------------------------------------------------
(* Properties of the heuristic scorers                                     *)

Heuristics == {"aa", "jc", "pa"}

RawIndexMatrix(key) == IndexMatrix(g_train, key)

SomeIndexNonZero(key) ==
  \E p \in Nodes \X Nodes : RawIndexMatrix(key)[p][1] # 0

(* C7: when a heuristic scorer has built its matrix from a training graph  *)
(* with at least one non-zero index value, the matrix it evaluates has     *)
(* maximum entry exactly 1 and every entry in [0, 1].                      *)
C7_HeuristicMatrixNormalized ==
  (matrix_of \in Heuristics /\ SomeIndexNonZero(matrix_of)) =>
    /\ \E p \in Nodes \X Nodes : score_matrix[p] = <<1, 1>>
    /\ \A p \in Nodes \X Nodes :
         /\ score_matrix[p][2] > 0
         /\ 0 <= score_matrix[p][1]
         /\ score_matrix[p][1] <= score_matrix[p][2]

C7_Witness ==
  /\ matrix_of = "pa"
  /\ SomeIndexNonZero("pa")
  /\ \E p \in Nodes \X Nodes : RawIndexMatrix("pa")[p][1] > 1
  /\ \E p \in Nodes \X Nodes :
       0 < score_matrix[p][1] /\ score_matrix[p][1] < score_matrix[p][2]

----------------------------------------------------------------------------
(* Error handling                                                          *)

(* C8: on an adjacency with zero edges the call ends in the split's        *)
(* InvalidSplitConfiguration error: no predictor runs and no scores        *)
(* mapping is returned.                                                    *)
C8_ZeroEdgesRaiseInvalidSplit ==
  NumEdges = 0 =>
    /\ pc \in {"start", "split", "raised"}
    /\ pc = "raised" => err = "InvalidSplitConfiguration"
    /\ pc # "raised" => err = "none"
    /\ lp_scores = <<>>
    /\ train_in = <<>>
    /\ matrix_of = "none"

C8_Witness ==
  /\ NumEdges = 0
  /\ pc = "raised"
  /\ err = "InvalidSplitConfiguration"

DegenerateHeuristicInput ==
  /\ matrix_of \in Heuristics
  /\ \/ ~SomeIndexNonZero(matrix_of)
     \/ Split3.test_edges = <<>>
     \/ Split3.test_edges_false = <<>>

(* C9: a heuristic scorer whose index matrix is entirely zero, or whose    *)
(* evaluation gets an empty edge set, stops at once with a                 *)
(* DegenerateMetricInput error and records no metrics.                     *)
C9_DegenerateInputIsFatal ==
  DegenerateHeuristicInput =>
    /\ pc = "raised"
    /\ err = "DegenerateMetricInput"
    /\ matrix_of \notin DOMAIN lp_scores

----------------------------------------------------------------------------
(* The result of calculate_all_scores                                      *)

TestFields == {"test_roc", "test_ap"}
ValFields == {"val_roc", "val_ap"}

RecordShapes(heur, emb, gen) ==
  /\ \A k \in DOMAIN lp_scores : TestFields \subseteq DOMAIN lp_scores[k]
  /\ \A k \in emb \cup gen : ValFields \subseteq DOMAIN lp_scores[k]
  /\ \A k \in DOMAIN lp_scores :
       ("val_roc_list" \in DOMAIN lp_scores[k]) <=> (k \in gen)

(* C10 as stated: the mapping is keyed by heuristic-AA, heuristic-JC,      *)
(* heuristic-PA, spectral, randomwalk and generative.                      *)
C10_KeysAsStated ==
  pc = "done" =>
    /\ DOMAIN lp_scores = {"heuristic-AA", "heuristic-JC", "heuristic-PA",
                           "spectral", "randomwalk", "generative"}
    /\ RecordShapes({"heuristic-AA", "heuristic-JC", "heuristic-PA"},
                    {"spectral", "randomwalk"}, {"generative"})

(* C10, amended: on successful completion the mapping has exactly the six  *)
(* keys aa, jc, pa, sc, n2v and gae; every record holds test_roc and       *)
(* test_ap, the sc, n2v and gae records also val_roc and val_ap, and only  *)
(* the gae record holds val_roc_list, one value per epoch.                 *)
C10_ResultMapping ==
  pc = "done" =>
    /\ DOMAIN lp_scores = {"aa", "jc", "pa", "sc", "n2v", "gae"}
    /\ RecordShapes(Heuristics, {"sc", "n2v"}, {"gae"})
    /\ lp_scores["gae"].val_roc_list = val_roc_score

C10_Witness ==
  /\ pc = "done"
  /\ Cardinality(DOMAIN lp_scores) = 6
  /\ Len(lp_scores["gae"].val_roc_list) = EPOCHS

----------------------------------------------------------------------------
(* Properties of get_roc_score (under SpecRoc)                             *)

RawScore(e) == roc.score_matrix[e[1], e[2]]
Expected(e) == IF roc.apply_sigmoid THEN sigmoid(RawScore(e)) ELSE RawScore(e)
NumPos == Len(roc.edges_pos)
NumNeg == Len(roc.edges_neg)

(* C5: the prediction vector has |pos| + |neg| entries, the i-th being the *)
(* matrix score of the i-th edge (positives in input order, then negatives *)
(* in input order), passed through the logistic function exactly when      *)
(* apply_sigmoid is set; the label vector has the same length, 1 on the    *)
(* first |pos| positions and 0 on the rest.                                *)
C5_PredictionAndLabelVectors ==
  roc.called =>
    /\ Len(roc.preds_all) = NumPos + NumNeg
    /\ Len(roc.labels_all) = NumPos + NumNeg
    /\ \A i \in 1 .. NumPos :
         /\ roc.preds_all[i] = Expected(roc.edges_pos[i])
         /\ roc.labels_all[i] = 1
    /\ \A i \in 1 .. NumNeg :
         /\ roc.preds_all[NumPos + i] = Expected(roc.edges_neg[i])
         /\ roc.labels_all[NumPos + i] = 0
    /\ \A i \in 1 .. (NumPos + NumNeg) :
         roc.apply_sigmoid <=> roc.preds_all[i][2] = 1000000000

C5_Witness ==
  /\ roc.called
  /\ roc.apply_sigmoid
  /\ NumPos = 2
  /\ NumNeg = 1
  /\ roc.edges_pos[1] = <<0, 1>>
  /\ roc.edges_pos[2] = <<1, 0>>
  /\ RawScore(<<0, 1>>) # RawScore(<<1, 0>>)
  /\ roc.preds_all[1] # roc.preds_all[2]

RawPosAbove ==
  \A i \in 1 .. NumPos, j \in 1 .. NumNeg :
    Less(RawScore(roc.edges_neg[j]), RawScore(roc.edges_pos[i]))
RawPosBelow ==
  \A i \in 1 .. NumPos, j \in 1 .. NumNeg :
    Less(RawScore(roc.edges_pos[i]), RawScore(roc.edges_neg[j]))
PredPosAbove ==
  \A i \in 1 .. NumPos, j \in 1 .. NumNeg :
    Less(roc.preds_all[NumPos + j], roc.preds_all[i])
PredPosBelow ==
  \A i \in 1 .. NumPos, j \in 1 .. NumNeg :
    Less(roc.preds_all[i], roc.preds_all[NumPos + j])

(* C6 as stated: with non-empty edge sets, ROC-AUC is 1 whenever every     *)
(* positive edge's matrix score is strictly above every negative edge's,   *)
(* and 0 whenever it is strictly below, with or without apply_sigmoid.     *)
C6_AucFromRawScores ==
  (roc.called /\ NumPos >= 1 /\ NumNeg >= 1) =>
    /\ roc.result.ok
    /\ RawPosAbove => roc.result.roc = <<1, 1>>
    /\ RawPosBelow => roc.result.roc = <<0, 1>>

(* C6, amended: with non-empty edge sets, ROC-AUC is 1 whenever every      *)
(* positive edge's prediction (the matrix score, or its double-precision   *)
(* sigmoid when apply_sigmoid is set) is strictly above every negative     *)
(* edge's prediction, and 0 whenever it is strictly below; without         *)
(* apply_sigmoid the predictions are the matrix scores.                    *)
C6_AucFromPredictions ==
  (roc.called /\ NumPos >= 1 /\ NumNeg >= 1) =>
    /\ roc.result.ok
    /\ PredPosAbove => roc.result.roc = <<1, 1>>
    /\ PredPosBelow => roc.result.roc = <<0, 1>>
    /\ ~roc.apply_sigmoid =>
         /\ RawPosAbove => roc.result.roc = <<1, 1>>
         /\ RawPosBelow => roc.result.roc = <<0, 1>>

C6_Witness ==
  /\ roc.called
  /\ roc.apply_sigmoid
  /\ NumPos = 2
  /\ NumNeg = 2
  /\ PredPosAbove
  /\ roc.result.roc = <<1, 1>>

----------------------------------------------------------------------------
(* Properties of repeated calls                                            *)

(* C4: within one call the generator is seeded exactly once, before the    *)
(* split and never again; a call with the same adjacency, test_frac and    *)
(* val_frac as the previous one ends the split with the same partitions    *)
(* (or the same error).                                                    *)
C4_SeededOnceSplitReproducible ==
  /\ pc = "start" => seed_calls = 0
  /\ pc # "start" => seed_calls = 1
  /\ (/\ prev.run >= 1
      /\ pc \notin {"start", "split"}
      /\ prev.adj_sparse = adj_sparse
      /\ prev.test_frac = test_frac
      /\ prev.val_frac = val_frac)
     => /\ train_test_split = prev.train_test_split
        /\ train_test_split.ok \/ err = prev.split_err

C4_Witness ==
  /\ prev.run >= 1
  /\ pc = "aa"
  /\ prev.adj_sparse = adj_sparse
  /\ train_test_split.ok
  /\ train_test_split = prev.train_test_split
  /\ Len(train_test_split.test_edges) >= 1
  /\ Len(train_test_split.val_edges) >= 1
  /\ prev.gae_in # NoGaeInput

(* C3: two calls whose original graphs yield the same training adjacency   *)
(* feed every predictor the same training input (graph, adjacency, class   *)
(* weight, loss normalisation).                                            *)
C3_TrainingInputIgnoresHeldOut ==
  (/\ prev.run >= 1
   /\ train_test_split.ok
   /\ prev.train_test_split.ok
   /\ train_test_split.adj_train = prev.train_test_split.adj_train)
  => /\ \A k \in DOMAIN train_in \ {"gae"} :
          train_in[k].graph = prev.train_test_split.adj_train
     /\ ("gae" \in DOMAIN train_in /\ prev.gae_in # NoGaeInput)
          => train_in["gae"] = prev.gae_in

----------------------------------------------------------------------------
(* Properties of the autoencoder's epoch loop                              *)

(* the split gives every metric call a positive and a negative edge *)
Scoreable ==
  /\ Len(train_test_split.val_edges) > 0
  /\ Len(train_test_split.val_edges_false) > 0
  /\ Len(train_test_split.test_edges) > 0
  /\ Len(train_test_split.test_edges_false) > 0

GaeEnded == pc \in {"done", "raised"}

GaeReturnedAfterAllEpochs ==
  /\ pc = "done"
  /\ "gae" \in DOMAIN lp_scores
  /\ lp_scores["gae"].val_roc_list = val_roc_score
  /\ Len(val_roc_score) = epochs
  /\ DOMAIN lp_scores["gae"] =
       {"test_roc", "test_ap", "val_roc", "val_ap", "val_roc_list"}

(* C11: for every epoch count EPOCHS >= 0, gae_scores never runs more than *)
(* EPOCHS steps, and a call on a split whose validation and test sets can  *)
(* be scored ends by returning the test/val metrics with a val_roc_list of *)
(* exactly EPOCHS values, the ones appended step by step, after the last   *)
(* step and not before.                                                    *)
C11_EveryEpochCountReturns ==
  /\ Len(val_roc_score) <= epochs
  /\ (GaeEnded /\ Scoreable) => GaeReturnedAfterAllEpochs

(* C11 for EPOCHS >= 1: the same, for the epoch counts that enter the loop *)
(* body at least once.                                                     *)
C11_PositiveEpochCountReturns ==
  /\ Len(val_roc_score) <= epochs
  /\ (epochs >= 1 /\ GaeEnded /\ Scoreable) => GaeReturnedAfterAllEpochs

(* C11: every step of the loop appends exactly one value at the end of the *)
(* list and leaves the values of the earlier epochs in place.              *)
C11_OneValuePerStep ==
  [][val_roc_score' # val_roc_score =>
       /\ Len(val_roc_score') = Len(val_roc_score) + 1
       /\ SubSeq(val_roc_score', 1, Len(val_roc_score)) = val_roc_score]_vars

C11_Witness ==
  /\ pc = "done"
  /\ epochs = MaxEpochs
  /\ Len(lp_scores["gae"].val_roc_list) = MaxEpochs

====
